---- MODULE Spec2Model ----
(***************************************************************************)
(* vproweather: a single-shot command line session with a Davis Vantage    *)
(* Pro console over a serial port.  The model covers the three revisions   *)
(* of the program kept under src/:                                         *)
(*   RevCurrent   src/index.tsx                                            *)
(*   RevCompiled  src/index.js, lines 1-249 (compiled JavaScript)          *)
(*   RevEarlier   src/index.js, lines 251-401 (earlier TypeScript source)  *)
(* Buffers and strings are sequences of numbers (bytes, UTF-16 code        *)
(* units); JavaScript's 0-based offsets are kept and shifted by one only   *)
(* where a TLA+ sequence is indexed.                                       *)
(***************************************************************************)
EXTENDS Integers, Sequences, FiniteSets, TLC

\* ------------------------------------------------------------------ bounds
\* Capacity of the read buffer.  The source allocates 4200 bytes
\* (READ_WRITE_BUF_LEN); the model keeps the name and scales the size down.
READ_WRITE_BUF_LEN == 6
\* Longest inbound byte stream (over all chunks) the console sends in a session.
MaxWireLen == 3
\* Longest buffer handed to trimBufferEnd / longest stream fed to the
\* accumulator when they are exercised on their own.
MaxTrimLen == 4

\* How far past the buffer capacity the console's stream goes when the
\* accumulator is driven beyond READ_WRITE_BUF_LEN.
MaxOverflow == 1

\* Longest inbound byte stream in the sessions checked for progress.
MaxLiveWireLen == 1

\* ------------------------------------------------------- program constants
CR == 13
LF == 10

RevCurrent == "index.tsx"
RevCompiled == "index.js"
RevEarlier == "index.js (earlier revision)"
Revisions == {RevCurrent, RevCompiled, RevEarlier}

\* `undefined` for a numeric option or for readBufferIdx before its first
\* assignment; `NoBuffer` for `readBuffer === undefined` and for a `null`
\* returned by vpro.read() (a real buffer is never empty in those places).
undefinedNum == -1
NoBuffer == <<>>

\* Byte values the console sends in the session model: 0x00 and 0x10.
Bytes == {0, 16}
\* Byte values used when the accumulator and trimBufferEnd run on their own:
\* 0x00, "." and "5".
TrimBytes == {0, 46, 53}

Min(a, b) == IF a < b THEN a ELSE b

\* ----------------------------------------------------------- Buffer basics
\* buf[i] with a 0-based index.
At(buf, i) == buf[i + 1]

\* buf.slice(start, end): end is clamped to buf.length.
Slice(buf, start, end) == SubSeq(buf, start + 1, Min(end, Len(buf)))

\* Buffer.alloc(n): n zero bytes.
BufferAlloc(n) == [i \in 1..n |-> 0]

\* source.copy(target, targetStart): copies as many bytes of source as fit
\* in target from targetStart on; the rest of target is left alone.
BufferCopy(source, target, targetStart) ==
    [i \in 1..Len(target) |->
        IF i - 1 >= targetStart /\ i - 1 - targetStart < Len(source)
        THEN source[i - targetStart]
        ELSE target[i]]

\* ------------------------------------------------------------ trimBufferEnd
\* The for loop of trimBufferEnd: i runs from buf.length - 1 down to 0 and
\* stops at the first non-zero byte; idx keeps its initial 0 when none is found.
RECURSIVE trimScan(_, _)
trimScan(buf, i) ==
    IF i < 0 THEN 0
    ELSE IF At(buf, i) # 0 THEN i
    ELSE trimScan(buf, i - 1)

trimBufferEnd(buf) ==
    LET idx == trimScan(buf, Len(buf) - 1)
    IN  Slice(buf, 0, idx + 1)

\* ------------------------------------------------------------ byte channel
\* The inbound side of the serial port is a queue of chunks, each a non-empty
\* byte sequence.  vpro.read() hands out the chunk at the head of the queue,
\* or null when nothing is buffered.
channelRead(q) ==
    IF q = <<>>
    THEN [chunk |-> NoBuffer, rx |-> q]
    ELSE [chunk |-> Head(q), rx |-> Tail(q)]

RECURSIVE Flatten(_)
Flatten(q) == IF q = <<>> THEN <<>> ELSE Head(q) \o Flatten(Tail(q))

\* vpro.read(n): null unless at least n bytes are buffered; otherwise the
\* first n buffered bytes, the remainder staying queued.
channelReadN(q, n) ==
    LET flat == Flatten(q)
        rest == SubSeq(flat, n + 1, Len(flat))
    IN  IF Len(flat) < n
        THEN [chunk |-> NoBuffer, rx |-> q]
        ELSE [chunk |-> SubSeq(flat, 1, n),
              rx |-> IF rest = <<>> THEN <<>> ELSE <<rest>>]

\* A readAllIncomingBytes that answers `true` also when the channel is empty.
readAllIncomingBytesNeverDone(rb, idx, q) ==
    LET rb1 == IF rb = NoBuffer THEN BufferAlloc(READ_WRITE_BUF_LEN) ELSE rb
        idx1 == IF rb = NoBuffer THEN 0 ELSE idx
        nextChar == channelRead(q)
    IN  IF nextChar.chunk # NoBuffer
        THEN [readBuffer |-> BufferCopy(nextChar.chunk, rb1, idx1),
              readBufferIdx |-> idx1 + 1,
              rx |-> nextChar.rx, more |-> TRUE, buf |-> NoBuffer]
        ELSE [readBuffer |-> rb1, readBufferIdx |-> idx1,
              rx |-> nextChar.rx, more |-> TRUE, buf |-> NoBuffer]

\* ----------------------------------------------------- readAllIncomingBytes
\* One call of readAllIncomingBytes (index.tsx, compiled index.js) on the
\* module-level readBuffer/readBufferIdx and the channel queue q.  `more` is
\* the `true` return; otherwise `buf` is the returned trimmed buffer.
readAllIncomingBytes(rb, idx, q) ==
    LET rb1 == IF rb = NoBuffer THEN BufferAlloc(READ_WRITE_BUF_LEN) ELSE rb
        idx1 == IF rb = NoBuffer THEN 0 ELSE idx
        nextChar == channelRead(q)
    IN  IF nextChar.chunk # NoBuffer
        THEN [readBuffer |-> BufferCopy(nextChar.chunk, rb1, idx1),
              readBufferIdx |-> idx1 + 1,
              rx |-> nextChar.rx, more |-> TRUE, buf |-> NoBuffer]
        ELSE [readBuffer |-> NoBuffer,
              readBufferIdx |-> idx1,
              rx |-> nextChar.rx, more |-> FALSE, buf |-> trimBufferEnd(rb1)]

\* `while (res === true) res = readAllIncomingBytes()` of getFirmwareVersion.
RECURSIVE drainLoop(_, _, _)
drainLoop(rb, idx, q) ==
    LET r == readAllIncomingBytes(rb, idx, q)
    IN  IF r.more THEN drainLoop(r.readBuffer, r.readBufferIdx, r.rx) ELSE r

\* readAllIncomingBytes of the earlier revision: it calls itself after every
\* chunk and returns nothing; readBuffer is neither trimmed nor discarded.
RECURSIVE readAllIncomingBytesEarlier(_, _, _)
readAllIncomingBytesEarlier(rb, idx, q) ==
    LET rb1 == IF rb = NoBuffer THEN BufferAlloc(READ_WRITE_BUF_LEN) ELSE rb
        idx1 == IF rb = NoBuffer THEN 0 ELSE idx
        nextChar == channelRead(q)
    IN  IF nextChar.chunk # NoBuffer
        THEN readAllIncomingBytesEarlier(
                 BufferCopy(nextChar.chunk, rb1, idx1), idx1 + 1, nextChar.rx)
        ELSE [readBuffer |-> rb1, readBufferIdx |-> idx1, rx |-> nextChar.rx]

\* ------------------------------------------------------------ command codec
\* String literals as sequences of character codes.
StrVER == <<86, 69, 82>>
StrWRD == <<87, 82, 68>>
StrLAMPS == <<76, 65, 77, 80, 83, 32>>
StrNewline == <<LF>>

\* String(n) for a non-negative integer: its decimal digits.
RECURSIVE NumberToString(_)
NumberToString(n) ==
    IF n < 10 THEN <<48 + n>>
    ELSE NumberToString(n \div 10) \o <<48 + (n % 10)>>

\* Buffer.from(str, 'ascii'): one byte per character, its low eight bits.
BufferFromAscii(str) == [i \in 1..Len(str) |-> str[i] % 256]

\* getFirmwareVersion's command buffer.
firmwareCommand(rev) ==
    IF rev = RevEarlier
    THEN BufferFromAscii(StrWRD \o NumberToString(18) \o NumberToString(77) \o StrNewline)
    ELSE BufferFromAscii(StrVER \o StrNewline)

\* getModel's command buffer: the template literal `WRD${0x12}${0x4d}\n` in
\* index.tsx, the string literal `WRD\x12\x4d\n` in the compiled index.js.
modelCommand(rev) ==
    IF rev = RevCurrent
    THEN BufferFromAscii(StrWRD \o NumberToString(18) \o NumberToString(77) \o StrNewline)
    ELSE BufferFromAscii(StrWRD \o <<18, 77>> \o StrNewline)

\* A command buffer with the digits of on and off exchanged.
backlightCommandSwapped(turnOn) ==
    BufferFromAscii(StrLAMPS \o (IF turnOn THEN <<48>> ELSE <<49>>) \o StrNewline)

\* switchBacklight's command buffer.
backlightCommand(turnOn) ==
    BufferFromAscii(StrLAMPS \o (IF turnOn THEN <<49>> ELSE <<48>>) \o StrNewline)

\* The wake-up write: the string '\r'.
wakeCommand == BufferFromAscii(<<CR>>)

\* res.toString('hex'): two lower-case hexadecimal digits per byte.
HexDigits == <<"0", "1", "2", "3", "4", "5", "6", "7",
               "8", "9", "a", "b", "c", "d", "e", "f">>
ToHex(buf) ==
    [i \in 1..(2 * Len(buf)) |->
        LET b == buf[(i + 1) \div 2]
        IN  HexDigits[(IF i % 2 = 1 THEN b \div 16 ELSE b % 16) + 1]]

\* readBuffer.toString(): UTF-8 decoding, exact for bytes below 0x80; a byte
\* that cannot start a character is shown as U+FFFD.
Utf8Decode(buf) == [i \in 1..Len(buf) |-> IF buf[i] < 128 THEN buf[i] ELSE 65533]

\* ------------------------------------------------------------ model decoder
\* A decoder whose switch has no default branch for codes above 16.
ModelDecoderNoDefault(modelCode) ==
    CASE modelCode = 0 -> "Wizard III"
      [] modelCode = 1 -> "Wizard II"
      [] modelCode = 2 -> "Monitor"
      [] modelCode = 3 -> "Perception"
      [] modelCode = 4 -> "GroWeather"
      [] modelCode = 5 -> "Energy Environmonitor"
      [] modelCode = 6 -> "Health Environmonitor"
      [] modelCode >= 16 -> "Vantage Pro"
      [] OTHER -> "Unknown model"

\* The switch over modelCode in getModel.
ModelDecoder(modelCode) ==
    CASE modelCode = 0 -> "Wizard III"
      [] modelCode = 1 -> "Wizard II"
      [] modelCode = 2 -> "Monitor"
      [] modelCode = 3 -> "Perception"
      [] modelCode = 4 -> "GroWeather"
      [] modelCode = 5 -> "Energy Environmonitor"
      [] modelCode = 6 -> "Health Environmonitor"
      [] modelCode = 16 -> "Vantage Pro"
      [] OTHER -> "Unknown model"

\* The offset-0 convention applied whatever the revision.
modelOffsetZero(rev) == 0

\* Offset of the model code in the record read by getModel, and the size
\* passed to vpro.read (0: no size, read() returns the next chunk).
modelOffset(rev) == IF rev = RevCompiled THEN 3 ELSE 0
modelReadSize(rev) == IF rev = RevCompiled THEN 4 ELSE 0

\* ------------------------------------------------------------------- state
VARIABLES
    revision,        \* which source revision runs
    argv,            \* the parsed command line (yargs)
    wire,            \* the chunks the console sends during the session
    nDelivered,      \* how many chunks of wire have reached the port
    rx,              \* chunks buffered in the port, not yet read
    readablePending, \* the port has a 'readable' event to emit
    pc,              \* position of the session
    promise,         \* state of the promise returned by wakeUpStation
    wakeTimer,       \* the 200 ms timer of wakeUpStation
    writes,          \* every vpro.write issued, with its outcome
    drainCalls,      \* number of vpro.drain() calls
    listener,        \* which 'readable' handler is registered
    timers,          \* pending reply timers (1000 ms / 2000 ms)
    readBuffer,      \* module-level readBuffer
    readBufferIdx,   \* module-level readBufferIdx
    res,             \* last value returned by readAllIncomingBytes
    out,             \* console output, one record per log call
    printed,         \* reply data printed by getFirmwareVersion
    exited,          \* process.exit was called
    exitCode,        \* its argument
    trimArg,         \* argument of a stand-alone trimBufferEnd call
    trimRes,         \* its result
    modelCode,       \* argument of a stand-alone model decode
    modelName        \* its result

sessionVars == <<revision, argv, wire, nDelivered, rx, readablePending, pc,
                 promise, wakeTimer, writes, drainCalls, listener, timers,
                 readBuffer, readBufferIdx, res, out, printed, exited, exitCode>>
pureVars == <<trimArg, trimRes, modelCode, modelName>>
vars == <<sessionVars, pureVars>>

\* ------------------------------------------------------------------ inputs
ByteSeqs(S, n) == UNION {[1..k -> S] : k \in 0..n}

\* Every way of cutting B into non-empty chunks.
RECURSIVE Splits(_)
Splits(B) ==
    IF B = <<>> THEN {<<>>}
    ELSE UNION {{<<SubSeq(B, 1, k)>> \o rest :
                    rest \in Splits(SubSeq(B, k + 1, Len(B)))} : k \in 1..Len(B)}

\* "5." then "2\n" and zero padding: a firmware reply in two chunks.
FirmwareExampleWire == << <<53, 46>>, <<50, 10, 0>> >>
\* 00 00 00 10: a model reply in the four-byte record of the compiled revision.
ModelExampleWire == << <<0, 0, 0, 16>> >>

Wires == UNION {Splits(B) : B \in ByteSeqs(Bytes, MaxWireLen)}
            \cup {FirmwareExampleWire, ModelExampleWire}

\* The options yargs hands to the program.  -b / --set-backlight fills argv.b;
\* argv.bk is filled by an option named bk only (declared by the earlier
\* revision, undeclared but accepted by the later ones); the same for f and fw.
OptNum == {undefinedNum, 0, 1}
ArgvSet(rev) ==
    IF rev = RevEarlier
    THEN [verbose : BOOLEAN, f : {FALSE}, m : {FALSE}, b : {undefinedNum},
          bk : OptNum, fw : BOOLEAN]
    ELSE [verbose : BOOLEAN, f : BOOLEAN, m : BOOLEAN, b : OptNum,
          bk : OptNum, fw : {FALSE}]

\* `const { p: port, verbose, f: firmware, bk: backlight, m: model } = argv`
\* (`const { p: port, verbose, fw } = argv` in the earlier revision).
firmware == IF revision = RevEarlier THEN argv.fw ELSE argv.f
backlight == IF revision = RevEarlier THEN undefinedNum ELSE argv.bk
model == IF revision = RevEarlier THEN FALSE ELSE argv.m
verbose == argv.verbose

InitRes == [more |-> TRUE, buf |-> NoBuffer]

PureIdle ==
    /\ trimArg = <<>>
    /\ trimRes = <<>>
    /\ modelCode = 0
    /\ modelName = ""

SessionIdle ==
    /\ nDelivered = 0
    /\ rx = <<>>
    /\ readablePending = FALSE
    /\ pc = "opening"
    /\ promise = "none"
    /\ wakeTimer = "none"
    /\ writes = <<>>
    /\ drainCalls = 0
    /\ listener = "none"
    /\ timers = 0
    /\ readBuffer = NoBuffer
    /\ readBufferIdx = undefinedNum
    /\ res = InitRes
    /\ out = <<>>
    /\ printed = <<>>
    /\ exited = FALSE
    /\ exitCode = undefinedNum

Init ==
    /\ revision \in Revisions
    /\ argv \in ArgvSet(revision)
    /\ wire \in Wires
    /\ SessionIdle
    /\ PureIdle

\* ----------------------------------------------------------------- helpers
Line(fn, text, arg) == [fn |-> fn, text |-> text, arg |-> arg]
LogIf(cond, log, line) == IF cond THEN Append(log, line) ELSE log

\* vpro.write(bytes, callback): the write is in flight until its callback runs.
IssueWrite(ws, cmd, bytes) == Append(ws, [cmd |-> cmd, bytes |-> bytes, done |-> "pending"])
CompleteWrite(ws, err) == [ws EXCEPT ![Len(ws)].done = IF err THEN "err" ELSE "ok"]
LastWrite == writes[Len(writes)]

\* A promise that the last resolve() / reject() call settles.
PromiseSettleLastWins(cur, outcome) == outcome

\* resolve() / reject() of a promise: only the first call settles it.
PromiseSettle(cur, outcome) == IF cur = "pending" THEN outcome ELSE cur

\* An await that goes on whichever way the promise was settled.
awaitOutcomeIgnoresRejection(p) ==
    IF p \in {"resolved", "rejected"} THEN "continue" ELSE "suspended"

\* `await wakeUpStation()`: the handler goes on when the promise is resolved
\* and throws (leaving the handler) when it is rejected.
awaitOutcome(p) ==
    CASE p = "resolved" -> "continue"
      [] p = "rejected" -> "throw"
      [] OTHER -> "suspended"

\* The if / else-if chain of the 'open' handler after the wake-up.
selectedCommand ==
    IF firmware THEN "firmware"
    ELSE IF backlight # undefinedNum THEN "backlight"
    ELSE IF model THEN "model"
    ELSE "none"

\* `if (verbose) { ... vpro.write(...) ... }` of getFirmwareVersion and getModel.
queryIsSent == verbose

\* The continuation of an awaiting handler is a microtask: it runs before any
\* timer callback.
MicrotaskPending == pc = "awaiting" /\ awaitOutcome(promise) # "suspended"

OnOff(turnOn) == IF turnOn THEN "on" ELSE "off"

\* ----------------------------------------------------------------- actions
\* vpro.on('open') up to the await: wakeUpStation creates the promise and
\* writes '\r'.
OnOpen ==
    /\ pc = "opening"
    /\ out' = LogIf(verbose, out, Line("logSuccess", "Serial port opened", ""))
    /\ promise' = "pending"
    /\ writes' = IssueWrite(writes, "wake", wakeCommand)
    /\ pc' = "wakeWrite"
    /\ UNCHANGED <<revision, argv, wire, nDelivered, rx, readablePending,
                   wakeTimer, drainCalls, listener, timers, readBuffer,
                   readBufferIdx, res, printed, exited, exitCode, pureVars>>

\* The callback of the '\r' write.  There is no return after reject(): the
\* success path runs in both cases.
WakeWriteCallback ==
    /\ pc = "wakeWrite"
    /\ \E err \in BOOLEAN :
         LET rejected == IF err THEN PromiseSettle(promise, "rejected") ELSE promise
             out1 == LogIf(err /\ verbose, out,
                           Line("logError", "Could not wake up weather station", ""))
             out2 == LogIf(verbose, out1,
                           Line("logSuccess", "Woke up weather station", ""))
         IN  /\ writes' = CompleteWrite(writes, err)
             /\ out' = out2
             /\ IF revision = RevEarlier
                THEN /\ promise' = PromiseSettle(rejected, "resolved")
                     /\ UNCHANGED <<drainCalls, wakeTimer>>
                ELSE /\ promise' = rejected
                     /\ drainCalls' = drainCalls + 1
                     /\ wakeTimer' = "armed"
    /\ pc' = "awaiting"
    /\ UNCHANGED <<revision, argv, wire, nDelivered, rx, readablePending,
                   listener, timers, readBuffer, readBufferIdx, res, printed,
                   exited, exitCode, pureVars>>

\* setTimeout(() => resolve(), 200).
WakeSettleTimer ==
    /\ wakeTimer = "armed"
    /\ ~MicrotaskPending
    /\ promise' = PromiseSettle(promise, "resolved")
    /\ wakeTimer' = "fired"
    /\ UNCHANGED <<revision, argv, wire, nDelivered, rx, readablePending, pc,
                   writes, drainCalls, listener, timers, readBuffer,
                   readBufferIdx, res, out, printed, exited, exitCode, pureVars>>

\* The await throws: the 'open' handler ends without dispatching a command
\* (an unhandled rejection; whether the process then dies or lives on, the
\* session does nothing more).
AwaitThrow ==
    /\ pc = "awaiting"
    /\ awaitOutcome(promise) = "throw"
    /\ pc' = "aborted"
    /\ UNCHANGED <<revision, argv, wire, nDelivered, rx, readablePending,
                   promise, wakeTimer, writes, drainCalls, listener, timers,
                   readBuffer, readBufferIdx, res, out, printed, exited,
                   exitCode, pureVars>>

Resumed == pc = "awaiting" /\ awaitOutcome(promise) = "continue"

\* getFirmwareVersion(): everything happens inside `if (verbose)`.
GetFirmwareVersion ==
    /\ Resumed
    /\ selectedCommand = "firmware"
    /\ IF queryIsSent
       THEN /\ out' = Append(out, Line("log", "Getting firmware version...", ""))
            /\ writes' = IssueWrite(writes, "firmware", firmwareCommand(revision))
            /\ pc' = "cmdWrite"
       ELSE /\ pc' = "idle"
            /\ UNCHANGED <<out, writes>>
    /\ UNCHANGED <<revision, argv, wire, nDelivered, rx, readablePending,
                   promise, wakeTimer, drainCalls, listener, timers, readBuffer,
                   readBufferIdx, res, printed, exited, exitCode, pureVars>>

\* switchBacklight(backlight !== 0).
SwitchBacklight ==
    /\ Resumed
    /\ selectedCommand = "backlight"
    /\ LET turnOn == backlight # 0
       IN  /\ out' = LogIf(verbose, out, Line("log", "Turning backlight", OnOff(turnOn)))
           /\ writes' = IssueWrite(writes, "backlight", backlightCommand(turnOn))
    /\ pc' = "cmdWrite"
    /\ UNCHANGED <<revision, argv, wire, nDelivered, rx, readablePending,
                   promise, wakeTimer, drainCalls, listener, timers, readBuffer,
                   readBufferIdx, res, printed, exited, exitCode, pureVars>>

\* getModel(): everything happens inside `if (verbose)`.
GetModel ==
    /\ Resumed
    /\ selectedCommand = "model"
    /\ IF queryIsSent
       THEN /\ out' = Append(out, Line("log", "Getting model...", ""))
            /\ writes' = IssueWrite(writes, "model", modelCommand(revision))
            /\ pc' = "cmdWrite"
       ELSE /\ pc' = "idle"
            /\ UNCHANGED <<out, writes>>
    /\ UNCHANGED <<revision, argv, wire, nDelivered, rx, readablePending,
                   promise, wakeTimer, drainCalls, listener, timers, readBuffer,
                   readBufferIdx, res, printed, exited, exitCode, pureVars>>

\* No command option selected: the handler ends.
NoCommand ==
    /\ Resumed
    /\ selectedCommand = "none"
    /\ pc' = "idle"
    /\ UNCHANGED <<revision, argv, wire, nDelivered, rx, readablePending,
                   promise, wakeTimer, writes, drainCalls, listener, timers,
                   readBuffer, readBufferIdx, res, out, printed, exited,
                   exitCode, pureVars>>

\* A write callback of getFirmwareVersion / getModel without the `return`
\* of its error branch: it logs and goes on to drain and listen.
QueryWriteCallbackNoReturn ==
    /\ pc = "cmdWrite"
    /\ LastWrite.cmd \in {"firmware", "model"}
    /\ \E err \in BOOLEAN :
         /\ writes' = CompleteWrite(writes, err)
         /\ out' = LogIf(err, out, Line("logError", "Failed to get firmware version", ""))
         /\ drainCalls' = drainCalls + 1
         /\ listener' = LastWrite.cmd
         /\ pc' = "awaitingReply"
    /\ UNCHANGED <<revision, argv, wire, nDelivered, rx, readablePending,
                   promise, wakeTimer, timers, readBuffer, readBufferIdx, res,
                   printed, exited, exitCode, pureVars>>

\* The write callback of getFirmwareVersion / getModel: on an error it logs
\* and returns; otherwise it drains and registers the 'readable' handler.
QueryWriteCallback ==
    /\ pc = "cmdWrite"
    /\ LastWrite.cmd \in {"firmware", "model"}
    /\ \E err \in BOOLEAN :
         /\ writes' = CompleteWrite(writes, err)
         /\ IF err
            THEN /\ out' = Append(out, Line("logError", "Failed to get firmware version", ""))
                 /\ pc' = "cmdFailed"
                 /\ UNCHANGED <<drainCalls, listener>>
            ELSE /\ drainCalls' = drainCalls + 1
                 /\ listener' = LastWrite.cmd
                 /\ pc' = "awaitingReply"
                 /\ UNCHANGED out
    /\ UNCHANGED <<revision, argv, wire, nDelivered, rx, readablePending,
                   promise, wakeTimer, timers, readBuffer, readBufferIdx, res,
                   printed, exited, exitCode, pureVars>>

\* The write callback of switchBacklight.
BacklightWriteCallback ==
    /\ pc = "cmdWrite"
    /\ LastWrite.cmd = "backlight"
    /\ \E err \in BOOLEAN :
         LET turnOn == backlight # 0
         IN  /\ writes' = CompleteWrite(writes, err)
             /\ IF err
                THEN /\ out' = Append(out, Line("logError", "Failed to turn backlight",
                                                OnOff(turnOn)))
                     /\ pc' = "cmdFailed"
                     /\ UNCHANGED drainCalls
                ELSE /\ drainCalls' = drainCalls + 1
                     /\ out' = LogIf(verbose, out,
                                     Line("logSuccess", "Turned backlight", OnOff(turnOn)))
                     /\ pc' = "done"
    /\ UNCHANGED <<revision, argv, wire, nDelivered, rx, readablePending,
                   promise, wakeTimer, listener, timers, readBuffer,
                   readBufferIdx, res, printed, exited, exitCode, pureVars>>

\* The console's next chunk reaches the port.  It is buffered as a chunk of
\* its own or appended to the chunk buffered last; either way the port has a
\* readiness signal to raise.
ChannelDeliver ==
    /\ pc # "opening"
    /\ ~exited
    /\ nDelivered < Len(wire)
    /\ LET chunk == wire[nDelivered + 1]
       IN  \/ rx' = Append(rx, chunk)
           \/ /\ rx # <<>>
              /\ rx' = [rx EXCEPT ![Len(rx)] = @ \o chunk]
    /\ nDelivered' = nDelivered + 1
    /\ readablePending' = TRUE
    /\ UNCHANGED <<revision, argv, wire, pc, promise, wakeTimer, writes,
                   drainCalls, listener, timers, readBuffer, readBufferIdx,
                   res, out, printed, exited, exitCode, pureVars>>

\* The 'readable' handler: it only schedules a timer.
ReadableEvent ==
    /\ listener # "none"
    /\ readablePending
    /\ ~exited
    /\ timers' = timers + 1
    /\ readablePending' = FALSE
    /\ UNCHANGED <<revision, argv, wire, nDelivered, rx, pc, promise,
                   wakeTimer, writes, drainCalls, listener, readBuffer,
                   readBufferIdx, res, out, printed, exited, exitCode, pureVars>>

\* A timer callback of getFirmwareVersion that drains and prints but does
\* not call process.exit (as in the earlier revision).
FirmwareReplyTimerNoExit ==
    /\ listener = "firmware"
    /\ revision # RevEarlier
    /\ timers > 0
    /\ LET r == drainLoop(readBuffer, readBufferIdx, rx)
       IN  /\ readBuffer' = r.readBuffer
           /\ readBufferIdx' = r.readBufferIdx
           /\ rx' = r.rx
           /\ res' = [more |-> r.more, buf |-> r.buf]
           /\ printed' = Append(printed, [enc |-> "hex", data |-> ToHex(r.buf),
                                          length |-> Len(r.buf)])
           /\ out' = Append(out, Line("console.log", "Data", ""))
    /\ timers' = timers - 1
    /\ UNCHANGED <<revision, argv, wire, nDelivered, readablePending, promise,
                   wakeTimer, writes, drainCalls, listener, pc, exited,
                   exitCode, pureVars>>

\* The 1000 ms timer of getFirmwareVersion: drain, print, exit.
FirmwareReplyTimer ==
    /\ listener = "firmware"
    /\ revision # RevEarlier
    /\ timers > 0
    /\ ~exited
    /\ LET r == drainLoop(readBuffer, readBufferIdx, rx)
       IN  /\ readBuffer' = r.readBuffer
           /\ readBufferIdx' = r.readBufferIdx
           /\ rx' = r.rx
           /\ res' = [more |-> r.more, buf |-> r.buf]
           /\ printed' = Append(printed, [enc |-> "hex", data |-> ToHex(r.buf),
                                          length |-> Len(r.buf)])
           /\ out' = Append(out, Line("console.log", "Data", ""))
    /\ timers' = timers - 1
    /\ exited' = TRUE
    /\ exitCode' = 0
    /\ pc' = "done"
    /\ UNCHANGED <<revision, argv, wire, nDelivered, readablePending, promise,
                   wakeTimer, writes, drainCalls, listener, pureVars>>

\* The 1000 ms timer of the earlier getFirmwareVersion: read everything,
\* print the whole readBuffer as text; the process goes on.
FirmwareReplyTimerEarlier ==
    /\ listener = "firmware"
    /\ revision = RevEarlier
    /\ timers > 0
    /\ LET r == readAllIncomingBytesEarlier(readBuffer, readBufferIdx, rx)
       IN  /\ readBuffer' = r.readBuffer
           /\ readBufferIdx' = r.readBufferIdx
           /\ rx' = r.rx
           /\ printed' = Append(printed, [enc |-> "utf8", data |-> Utf8Decode(r.readBuffer),
                                          length |-> Len(r.readBuffer)])
           /\ out' = Append(out, Line("console.log", "Data", ""))
    /\ timers' = timers - 1
    /\ UNCHANGED <<revision, argv, wire, nDelivered, readablePending, pc,
                   promise, wakeTimer, writes, drainCalls, listener, res,
                   exited, exitCode, pureVars>>

\* The 2000 ms timer of getModel: one read, decode, exit.
ModelReplyTimer ==
    /\ listener = "model"
    /\ timers > 0
    /\ ~exited
    /\ LET rd == IF modelReadSize(revision) = 0
                 THEN channelRead(rx)
                 ELSE channelReadN(rx, modelReadSize(revision))
           readBuf == rd.chunk
           out1 == LogIf(revision = RevCurrent, out, Line("console.log", "readBuf", ""))
       IN  /\ rx' = rd.rx
           /\ out' = IF readBuf # NoBuffer
                     THEN Append(out1, Line("logSuccess", "Display model: ",
                                   ModelDecoder(At(readBuf, modelOffset(revision)))))
                     ELSE out1
    /\ timers' = timers - 1
    /\ exited' = TRUE
    /\ exitCode' = 0
    /\ pc' = "done"
    /\ UNCHANGED <<revision, argv, wire, nDelivered, readablePending, promise,
                   wakeTimer, writes, drainCalls, listener, readBuffer,
                   readBufferIdx, res, printed, pureVars>>

Next ==
    \/ OnOpen
    \/ WakeWriteCallback
    \/ WakeSettleTimer
    \/ AwaitThrow
    \/ GetFirmwareVersion
    \/ SwitchBacklight
    \/ GetModel
    \/ NoCommand
    \/ QueryWriteCallback
    \/ BacklightWriteCallback
    \/ ChannelDeliver
    \/ ReadableEvent
    \/ FirmwareReplyTimer
    \/ FirmwareReplyTimerEarlier
    \/ ModelReplyTimer

Spec == Init /\ [][Next]_vars

\* Sessions for the progress properties: verbose output on, at most one
\* command option given, and at most MaxLiveWireLen bytes from the console
\* (or the four-byte model record).
LiveWires == UNION {Splits(B) : B \in ByteSeqs(Bytes, MaxLiveWireLen)}
                 \cup {ModelExampleWire, FirmwareExampleWire}

InitLive ==
    /\ revision \in Revisions
    /\ argv \in {a \in ArgvSet(revision) :
                    /\ a.verbose
                    /\ a.b = undefinedNum
                    /\ Cardinality({o \in {"f", "m", "fw"} : a[o]}
                           \cup {o \in {"bk"} : a[o] # undefinedNum}) <= 1}
    /\ wire \in LiveWires
    /\ SessionIdle
    /\ PureIdle

\* The event loop runs every timer callback that is due.  The arrival of
\* bytes from the console is not under the program's control.
FairSpec ==
    /\ InitLive
    /\ [][Next]_vars
    /\ WF_vars(FirmwareReplyTimer)
    /\ WF_vars(ModelReplyTimer)

\* ------------------------------------------- the accumulator on its own
\* Every chunk of wire is already buffered in the port; readAllIncomingBytes
\* is called until it returns a buffer.
\* "5.2\n", the firmware reply of the end-to-end scenario, in every chunking.
FirmwareExampleReply == <<53, 46, 50, 10>>
AccumWires == UNION {Splits(B) : B \in ByteSeqs(TrimBytes, MaxTrimLen)}
                 \cup Splits(FirmwareExampleReply)

InitAccum ==
    /\ revision \in {RevCurrent, RevCompiled}
    /\ argv \in {[verbose |-> TRUE, f |-> TRUE, m |-> FALSE, b |-> undefinedNum,
                   bk |-> undefinedNum, fw |-> FALSE]}
    /\ wire \in AccumWires
    /\ nDelivered = Len(wire)
    /\ rx = wire
    /\ readablePending = FALSE
    /\ pc = "accumulating"
    /\ promise = "none"
    /\ wakeTimer = "none"
    /\ writes = <<>>
    /\ drainCalls = 0
    /\ listener = "none"
    /\ timers = 0
    /\ readBuffer = NoBuffer
    /\ readBufferIdx = undefinedNum
    /\ res = InitRes
    /\ out = <<>>
    /\ printed = <<>>
    /\ exited = FALSE
    /\ exitCode = undefinedNum
    /\ PureIdle

\* One iteration of `while (res === true) res = readAllIncomingBytes()`.
AccumRead ==
    /\ pc = "accumulating"
    /\ res.more
    /\ LET r == readAllIncomingBytes(readBuffer, readBufferIdx, rx)
       IN  /\ readBuffer' = r.readBuffer
           /\ readBufferIdx' = r.readBufferIdx
           /\ rx' = r.rx
           /\ res' = [more |-> r.more, buf |-> r.buf]
           /\ pc' = IF r.more THEN "accumulating" ELSE "accumulated"
    /\ UNCHANGED <<revision, argv, wire, nDelivered, readablePending, promise,
                   wakeTimer, writes, drainCalls, listener, timers, out,
                   printed, exited, exitCode, pureVars>>

\* After the loop: `if (res.constructor === Buffer) console.log(...)` and
\* process.exit(0).
AccumReport ==
    /\ pc = "accumulated"
    /\ printed' = IF res.more
                  THEN printed
                  ELSE Append(printed, [enc |-> "hex", data |-> ToHex(res.buf),
                                        length |-> Len(res.buf)])
    /\ out' = IF res.more THEN out ELSE Append(out, Line("console.log", "Data", ""))
    /\ exited' = TRUE
    /\ exitCode' = 0
    /\ pc' = "reported"
    /\ UNCHANGED <<revision, argv, wire, nDelivered, rx, readablePending,
                   promise, wakeTimer, writes, drainCalls, listener, timers,
                   readBuffer, readBufferIdx, res, pureVars>>

NextAccum ==
    \/ AccumRead
    \/ AccumReport

SpecAccum == InitAccum /\ [][NextAccum]_vars

\* The loop and what follows it are straight-line code of one timer
\* callback: each step is taken as long as it can be.
FairSpecAccum ==
    /\ InitAccum
    /\ [][NextAccum]_vars
    /\ WF_vars(AccumRead)
    /\ WF_vars(AccumReport)

\* --------------------------------------------- trimBufferEnd on its own
InitTrim ==
    /\ revision \in {RevCurrent, RevCompiled}
    /\ argv \in {[verbose |-> FALSE, f |-> FALSE, m |-> FALSE, b |-> undefinedNum,
                   bk |-> undefinedNum, fw |-> FALSE]}
    /\ wire = <<>>
    /\ SessionIdle
    /\ trimArg \in ByteSeqs(TrimBytes, MaxTrimLen)
    /\ trimRes = <<>>
    /\ modelCode = 0
    /\ modelName = ""

TrimCall ==
    /\ pc = "opening"
    /\ trimRes' = trimBufferEnd(trimArg)
    /\ pc' = "trimReturned"
    /\ UNCHANGED <<revision, argv, wire, nDelivered, rx, readablePending,
                   promise, wakeTimer, writes, drainCalls, listener, timers,
                   readBuffer, readBufferIdx, res, out, printed, exited,
                   exitCode, trimArg, modelCode, modelName>>

NextTrim == TrimCall

SpecTrim == InitTrim /\ [][NextTrim]_vars

\* --------------------------------------------- the model switch on its own
\* modelCode is the result of readUInt8: any value 0..255.
InitDecode ==
    /\ revision \in {RevCurrent, RevCompiled}
    /\ argv \in {[verbose |-> TRUE, f |-> FALSE, m |-> TRUE, b |-> undefinedNum,
                   bk |-> undefinedNum, fw |-> FALSE]}
    /\ wire = <<>>
    /\ SessionIdle
    /\ trimArg = <<>>
    /\ trimRes = <<>>
    /\ modelCode \in 0..255
    /\ modelName = ""

DecodeCall ==
    /\ pc = "opening"
    /\ modelName' = ModelDecoder(modelCode)
    /\ pc' = "decodeReturned"
    /\ UNCHANGED <<revision, argv, wire, nDelivered, rx, readablePending,
                   promise, wakeTimer, writes, drainCalls, listener, timers,
                   readBuffer, readBufferIdx, res, out, printed, exited,
                   exitCode, trimArg, trimRes, modelCode>>

NextDecode == DecodeCall

SpecDecode == InitDecode /\ [][NextDecode]_vars

\* ------------------------------------------------------------- properties
\* B with its trailing 0x00 bytes removed.
RECURSIVE StripTrailingZeros(_)
StripTrailingZeros(B) ==
    IF B = <<>> THEN <<>>
    ELSE IF B[Len(B)] # 0 THEN B
    ELSE StripTrailingZeros(SubSeq(B, 1, Len(B) - 1))

AllZero(B) == \A i \in 1..Len(B) : B[i] = 0

\* C1 (as stated): for every byte sequence B and every split of B into
\* non-empty chunks returned by successive reads, calling
\* readAllIncomingBytes until it returns a buffer yields B with its trailing
\* zero bytes removed.
C1_ChunkingInvariance ==
    pc = "accumulated" => res.buf = StripTrailingZeros(Flatten(wire))

\* C8 (as stated): trimBufferEnd of a buffer whose bytes are all 0x00, of
\* any length, is a zero-length buffer.
C8_AllZeroTrimsToEmpty ==
    (pc = "trimReturned" /\ AllZero(trimArg)) => Len(trimRes) = 0

\* The table of the eight known model codes.
KnownModels ==
    (0 :> "Wizard III") @@ (1 :> "Wizard II") @@ (2 :> "Monitor") @@
    (3 :> "Perception") @@ (4 :> "GroWeather") @@
    (5 :> "Energy Environmonitor") @@ (6 :> "Health Environmonitor") @@
    (16 :> "Vantage Pro")

\* C10: the model decoder is total over 0..255: the eight known codes give
\* their names and every other code gives 'Unknown model'.
C10_DecoderTotal ==
    pc = "decodeReturned" =>
        modelName = IF modelCode \in DOMAIN KnownModels
                    THEN KnownModels[modelCode]
                    ELSE "Unknown model"

\* C10 witness: the unmapped code 255 has been decoded.
C10_Witness ==
    pc = "decodeReturned" /\ modelCode = 255 /\ modelName = "Unknown model"

\* The writes of the wake-up byte and the writes of commands.
IsWake(w) == w.cmd = "wake"
IsCommand(w) == w.cmd \in {"firmware", "backlight", "model"}
wakeWrites == SelectSeq(writes, IsWake)
commandWrites == SelectSeq(writes, IsCommand)

\* The 'open' handler has gone past the await and the if / else-if chain.
Dispatched == pc \in {"idle", "cmdWrite", "cmdFailed", "awaitingReply", "done"}

C3_NoCommandAfterWakeFailure ==
    (wakeWrites # <<>> /\ wakeWrites[1].done = "err") => commandWrites = <<>>

\* C3 witness: the handshake failed with the firmware option given and
\* verbose on, the handler has ended, the settle timer has run and the
\* console's bytes have all arrived.
C3_Witness ==
    /\ wakeWrites # <<>> /\ wakeWrites[1].done = "err"
    /\ pc = "aborted"
    /\ wakeTimer = "fired"
    /\ firmware /\ verbose
    /\ wire # <<>> /\ nDelivered = Len(wire)

\* C4 (as stated): a command write is issued only after the CR write has
\* completed successfully, the output has been drained and the 200 ms
\* settle timer has fired.
C4_CommandAfterSettle ==
    commandWrites # <<>> =>
        /\ wakeWrites # <<>> /\ wakeWrites[1].done = "ok"
        /\ drainCalls >= 1
        /\ wakeTimer = "fired"

\* C5 (as stated): whenever the handshake succeeds and firmware or model is
\* the requested command, its bytes are written (and, once the write has
\* succeeded, the reply is awaited), whatever the other options are.
C5_ReplyCommandIssued ==
    (Dispatched /\ selectedCommand \in {"firmware", "model"}) =>
        /\ Len(commandWrites) = 1
        /\ commandWrites[1].cmd = selectedCommand
        /\ commandWrites[1].done = "ok" => listener = selectedCommand

\* "LAMPS 0\n" / "LAMPS 1\n".
LampsBytes(v) == <<76, 65, 77, 80, 83, 32, 48 + v, 10>>

\* C6 (as stated): with -b / --set-backlight 0 or 1, firmware not requested
\* and the handshake successful, the LAMPS command for that value is
\* written, and no reply is awaited.
C6_BacklightServiced ==
    (Dispatched /\ revision # RevEarlier /\ argv.b \in {0, 1} /\ ~argv.f) =>
        /\ Len(commandWrites) = 1
        /\ commandWrites[1].bytes = LampsBytes(argv.b)
        /\ listener = "none"

\* C7 (as stated): a firmware reply delivered in two chunks is printed, and
\* the process ends, only after the second chunk has been copied; what is
\* printed is both chunks concatenated, trailing zeros removed.
C7_ReplyAfterSecondChunk ==
    (revision # RevEarlier /\ listener = "firmware" /\ exited /\ Len(wire) = 2) =>
        /\ nDelivered = 2
        /\ rx = <<>>
        /\ Len(printed) = 1
        /\ printed[1].data = ToHex(StripTrailingZeros(Flatten(wire)))
        /\ printed[1].length = Len(StripTrailingZeros(Flatten(wire)))

\* C9 (as stated): in every revision that issues a model query the command
\* is the six bytes 57 52 44 12 4D 0A.
C9_ModelCommandBytes ==
    \A i \in 1..Len(writes) :
        writes[i].cmd = "model" => writes[i].bytes = <<87, 82, 68, 18, 77, 10>>

\* C11: switchBacklight(true) writes exactly 4C 41 4D 50 53 20 31 0A,
\* switchBacklight(false) exactly 4C 41 4D 50 53 20 30 0A, in one write, and
\* nothing else.
C11_BacklightBytes ==
    /\ \A i \in 1..Len(writes) :
           writes[i].cmd = "backlight" =>
               writes[i].bytes = IF backlight = 0
                                 THEN <<76, 65, 77, 80, 83, 32, 48, 10>>
                                 ELSE <<76, 65, 77, 80, 83, 32, 49, 10>>
    /\ (commandWrites # <<>> /\ commandWrites[1].cmd = "backlight") =>
           Len(commandWrites) = 1

\* C11 witness: switchBacklight(false) has run and its write has completed.
C11_Witness ==
    /\ pc = "done"
    /\ backlight = 0
    /\ Len(commandWrites) = 1
    /\ commandWrites[1].cmd = "backlight" /\ commandWrites[1].done = "ok"

\* ------------------------------- the accumulator driven past its capacity
\* Streams of up to READ_WRITE_BUF_LEN + MaxOverflow one-byte chunks, and
\* streams of one or two chunks of up to that many bytes.
Filled(n) == [i \in 1..n |-> 16]
OverflowWires ==
    {[i \in 1..k |-> <<16>>] : k \in 0..(READ_WRITE_BUF_LEN + MaxOverflow)}
    \cup {<<Filled(n)>> : n \in 1..(READ_WRITE_BUF_LEN + MaxOverflow)}
    \cup {<<Filled(n), Filled(k)>> : n, k \in 1..(READ_WRITE_BUF_LEN + MaxOverflow)}

InitOverflow ==
    /\ revision \in {RevCurrent, RevCompiled}
    /\ argv \in {[verbose |-> TRUE, f |-> TRUE, m |-> FALSE, b |-> undefinedNum,
                   bk |-> undefinedNum, fw |-> FALSE]}
    /\ wire \in OverflowWires
    /\ nDelivered = Len(wire)
    /\ rx = wire
    /\ readablePending = FALSE
    /\ pc = "accumulating"
    /\ promise = "none"
    /\ wakeTimer = "none"
    /\ writes = <<>>
    /\ drainCalls = 0
    /\ listener = "none"
    /\ timers = 0
    /\ readBuffer = NoBuffer
    /\ readBufferIdx = undefinedNum
    /\ res = InitRes
    /\ out = <<>>
    /\ printed = <<>>
    /\ exited = FALSE
    /\ exitCode = undefinedNum
    /\ PureIdle

SpecOverflow == InitOverflow /\ [][NextAccum]_vars

\* The i-th chunk is copied at offset i - 1: it reaches past the capacity
\* when it does not fit between that offset and READ_WRITE_BUF_LEN.
WritesPastCapacity(w) ==
    \E i \in 1..Len(w) : (i - 1) + Len(w[i]) > READ_WRITE_BUF_LEN

\* C12 (as stated): the write cursor readBufferIdx never exceeds the
\* capacity, and a write past the capacity is a fatal overflow: the
\* accumulator does not complete with a (truncated) result.
C12_CursorWithinCapacity ==
    /\ readBufferIdx <= READ_WRITE_BUF_LEN
    /\ pc = "accumulated" => ~WritesPastCapacity(wire)

\* A model name has been printed.
ModelPrinted == \E i \in 1..Len(out) : out[i].text = "Display model: "

\* The reply timer has done its work: the firmware reply is printed; the
\* model name is printed (index.tsx reads whatever is buffered; the compiled
\* revision prints a name only when four bytes could be read).
ReplyHandled ==
    IF listener = "firmware"
    THEN Len(printed) = 1
    ELSE revision = RevCurrent => ModelPrinted

\* C13: in index.tsx and the compiled index.js, once a firmware or model
\* command has been written successfully and a 'readable' event has been
\* raised, the session eventually drains the reply, decodes it and ends the
\* process with exit code 0.
C13_ReplyLeadsToExit ==
    (revision # RevEarlier /\ listener # "none" /\ timers > 0 /\ ~exited)
        ~> (exited /\ exitCode = 0 /\ ReplyHandled)

\* C13 witness: a model query was answered, decoded and the process ended.
C13_Witness ==
    /\ revision = RevCurrent
    /\ listener = "model"
    /\ exited /\ exitCode = 0
    /\ ModelPrinted

\* The command the options ask for, in the order firmware, backlight, model
\* (-b / --set-backlight is the backlight option).
RequestedCommand ==
    IF argv.f \/ argv.fw THEN "firmware"
    ELSE IF argv.b # undefinedNum \/ argv.bk # undefinedNum THEN "backlight"
    ELSE IF argv.m THEN "model"
    ELSE "none"

\* C14 (as stated): for every combination of the firmware, backlight and
\* model options at most one command write is issued in a session, it is the
\* command selected in the order firmware, backlight, model, and at most one
\* command / reply exchange is outstanding at any time.
C14_OneCommandInOrder ==
    /\ Len(commandWrites) <= 1
    /\ Cardinality({i \in 1..Len(writes) : writes[i].done = "pending"}) <= 1
    /\ commandWrites # <<>> => commandWrites[1].cmd = RequestedCommand
    /\ listener # "none" => commandWrites[1].cmd = listener

\* The drain calls of the wake-up: one in index.tsx and the compiled index.js
\* once the CR write callback has run, none in the earlier revision.
WakeDrains == IF revision = RevEarlier THEN 0 ELSE 1

\* C15: when the write of a firmware, model or backlight command fails, the
\* command is not written again, drain is not called for it, no 'readable'
\* handler is registered (so no timer is scheduled), and nothing that
\* arrives is read, accumulated, decoded or printed.
C15_CommandWriteErrorTerminal ==
    (commandWrites # <<>> /\ commandWrites[1].done = "err") =>
        /\ Len(commandWrites) = 1
        /\ pc = "cmdFailed"
        /\ drainCalls = WakeDrains
        /\ listener = "none" /\ timers = 0
        /\ Flatten(rx) = Flatten(SubSeq(wire, 1, nDelivered))
        /\ readBuffer = NoBuffer /\ readBufferIdx = undefinedNum
        /\ printed = <<>> /\ ~ModelPrinted
        /\ ~exited

\* C15 witness: the model query's write failed and the console's bytes have
\* all arrived since, unread.
C15_Witness ==
    /\ pc = "cmdFailed"
    /\ commandWrites[1].cmd = "model" /\ commandWrites[1].done = "err"
    /\ wire # <<>> /\ nDelivered = Len(wire)
    /\ readablePending

\* ------------------------------- the accumulator called again and again
\* readAllIncomingBytes is called any number of times while the console's
\* chunks arrive; a call that finds the channel empty completes a reply and
\* the next call starts another.
InitLifecycle ==
    /\ revision \in Revisions
    /\ argv \in {a \in ArgvSet(revision) :
                    /\ a.verbose /\ (a.f \/ a.fw) /\ ~a.m
                    /\ a.b = undefinedNum /\ a.bk = undefinedNum}
    /\ wire \in Wires
    /\ nDelivered = 0
    /\ rx = <<>>
    /\ readablePending = FALSE
    /\ pc = "lifecycle"
    /\ promise = "none"
    /\ wakeTimer = "none"
    /\ writes = <<>>
    /\ drainCalls = 0
    /\ listener = "none"
    /\ timers = 0
    /\ readBuffer = NoBuffer
    /\ readBufferIdx = undefinedNum
    /\ res = InitRes
    /\ out = <<>>
    /\ printed = <<>>
    /\ exited = FALSE
    /\ exitCode = undefinedNum
    /\ PureIdle

\* The next chunk is buffered in the port.
LifecycleDeliver ==
    /\ pc = "lifecycle"
    /\ nDelivered < Len(wire)
    /\ rx' = Append(rx, wire[nDelivered + 1])
    /\ nDelivered' = nDelivered + 1
    /\ UNCHANGED <<revision, argv, wire, readablePending, pc, promise,
                   wakeTimer, writes, drainCalls, listener, timers, readBuffer,
                   readBufferIdx, res, out, printed, exited, exitCode, pureVars>>

\* One call of readAllIncomingBytes from outside.  The earlier revision's
\* function reads until the channel is empty and returns undefined.
LifecycleCall ==
    /\ pc = "lifecycle"
    /\ IF revision = RevEarlier
       THEN LET r == readAllIncomingBytesEarlier(readBuffer, readBufferIdx, rx)
            IN  /\ readBuffer' = r.readBuffer
                /\ readBufferIdx' = r.readBufferIdx
                /\ rx' = r.rx
                /\ res' = [more |-> FALSE, buf |-> NoBuffer]
       ELSE LET r == readAllIncomingBytes(readBuffer, readBufferIdx, rx)
            IN  /\ readBuffer' = r.readBuffer
                /\ readBufferIdx' = r.readBufferIdx
                /\ rx' = r.rx
                /\ res' = [more |-> r.more, buf |-> r.buf]
    /\ UNCHANGED <<revision, argv, wire, nDelivered, readablePending, pc,
                   promise, wakeTimer, writes, drainCalls, listener, timers,
                   out, printed, exited, exitCode, pureVars>>

NextLifecycle ==
    \/ LifecycleDeliver
    \/ LifecycleCall

SpecLifecycle == InitLifecycle /\ [][NextLifecycle]_vars

\* A buffer of READ_WRITE_BUF_LEN zero bytes with chunk c written at offset 0.
FreshWith(c) == [i \in 1..READ_WRITE_BUF_LEN |-> IF i <= Len(c) THEN c[i] ELSE 0]

\* C16 (as stated): once readAllIncomingBytes has reported completion the
\* module-level readBuffer is undefined, and the call after a completion
\* works on a fresh zero-filled buffer with the cursor reset to 0 (so it
\* leaves the cursor at 1 and nothing but its own chunk in the buffer, or
\* the cursor at 0 when the channel is empty).
C16_BufferLifecycle ==
    [][/\ ~res'.more => readBuffer' = NoBuffer
       /\ (~res.more /\ nDelivered' = nDelivered) =>
              IF rx = <<>>
              THEN readBufferIdx' = 0 /\ readBuffer' = NoBuffer
              ELSE readBufferIdx' = 1 /\ readBuffer' = FreshWith(Head(rx))]_vars

\* The model names reported on the log o, in order.
IsModelLine(l) == l.text = "Display model: "
RECURSIVE LineArgs(_)
LineArgs(ls) == IF ls = <<>> THEN <<>> ELSE <<Head(ls).arg>> \o LineArgs(Tail(ls))
ModelNames(o) == LineArgs(SelectSeq(o, IsModelLine))

NameOf(code) ==
    IF code \in DOMAIN KnownModels THEN KnownModels[code] ELSE "Unknown model"

\* C17: the model timer decodes the byte at the revision's fixed offset:
\* index.tsx takes the first byte of the record that read() returns, the
\* compiled index.js the fourth byte of a four-byte read (so 10, respectively
\* 00 00 00 10, give 'Vantage Pro'); when the reply is too short for that
\* (nothing buffered, respectively fewer than four bytes) no model name is
\* reported at all.
C17_ModelOffset ==
    [][(listener = "model" /\ ~exited /\ exited') =>
           LET flat == Flatten(rx)
           IN  ModelNames(out') =
                   IF revision = RevCompiled
                   THEN IF Len(flat) >= 4 THEN <<NameOf(flat[4])>> ELSE <<>>
                   ELSE IF rx # <<>> THEN <<NameOf(rx[1][1])>> ELSE <<>>]_vars

\* C17 witness: the compiled revision has read 00 00 00 10 and reported
\* 'Vantage Pro'.
C17_Witness ==
    /\ revision = RevCompiled
    /\ listener = "model" /\ exited
    /\ wire = ModelExampleWire
    /\ ModelNames(out) = <<"Vantage Pro">>

\* The success line of wakeUpStation is on the log.
WokeLogged == \E i \in 1..Len(out) : out[i].text = "Woke up weather station"

\* C18 (as stated): when the CR write fails the promise is rejected and none
\* of the success-path effects occur: no 'Woke up weather station' line, no
\* drain call, no 200 ms settle timer (hence no later resolve call).
C18_OneOutcomePath ==
    (wakeWrites # <<>> /\ wakeWrites[1].done = "err") =>
        /\ promise = "rejected"
        /\ ~WokeLogged
        /\ drainCalls = 0
        /\ wakeTimer = "none"

\* C19: in index.tsx and the compiled index.js the reply is drained and
\* reported at most once per session, however many 'readable' events
\* scheduled a timer: the step that prints a result or reads from the
\* channel ends the process, and once the process has exited no timer
\* callback runs and neither readBuffer, the channel nor the output changes.
C19_ReportedAtMostOnce ==
    [][revision # RevEarlier =>
          /\ Len(printed') + Len(ModelNames(out')) <= 1
          /\ (printed' # printed \/ Len(Flatten(rx')) < Len(Flatten(rx))) =>
                 (~exited /\ exited')
          /\ exited => UNCHANGED <<readBuffer, readBufferIdx, rx, printed,
                                   out, timers>>]_vars

\* C19 witness: two 'readable' events scheduled a timer each; the first
\* timer has printed the firmware reply and ended the process, the second
\* is still pending.
C19_Witness ==
    /\ revision = RevCurrent
    /\ listener = "firmware"
    /\ exited /\ Len(printed) = 1
    /\ timers >= 1

\* C20: the firmware drain loop terminates: with finitely many chunks
\* buffered, every iteration reads exactly one chunk and goes on, the
\* iteration that finds the channel empty ends the loop with a Buffer (never
\* with `true`), so there is one read per chunk plus one empty read; the
\* result is then printed and the process exits.
C20_DrainLoopTerminates ==
    /\ [][pc = "accumulating" =>
              IF rx # <<>>
              THEN /\ rx' = Tail(rx)
                   /\ readBufferIdx' = Len(wire) - Len(rx')
                   /\ res'.more /\ pc' = "accumulating"
              ELSE /\ readBufferIdx' = Len(wire)
                   /\ ~res'.more /\ pc' = "accumulated"]_vars
    /\ <>(/\ pc = "reported"
          /\ exited /\ exitCode = 0
          /\ ~res.more
          /\ rx = <<>>
          /\ Len(printed) = 1
          /\ printed[1].data = ToHex(res.buf))

\* C20 witness: two buffered chunks have been read in two iterations, the
\* third found the channel empty, and the result was printed before exit.
C20_Witness ==
    /\ pc = "reported"
    /\ Len(wire) = 2 /\ readBufferIdx = 2
    /\ rx = <<>>
    /\ Len(printed) = 1
    /\ exited

====
